---- MODULE Spec2Model ----
(***************************************************************************)
(* A model of gluestick (src/gluestick/gluestick.py): the folder loader    *)
(* read_csv_folder and the table transforms json_tuple_to_cols, rename,    *)
(* explode_json_to_rows, explode_json_to_cols and array_to_dict_reducer.   *)
(*                                                                         *)
(* Text is a sequence of tokens; the tokens of a file path are "A", "B",   *)
(* "_", "-", "/" and ".csv" (no other token shares a character with        *)
(* ".csv", so an occurrence of the substring '.csv' is an occurrence of    *)
(* the token).                                                             *)
(***************************************************************************)
EXTENDS Integers, Sequences, FiniteSets, TLC

VARIABLES
    \* read_csv_folder
    path,        \* the path argument (token sequence)
    is_directory,\* os.path.isdir(path)
    all_files,   \* the files to read, in enumeration order
    config,      \* the index_cols and converters arguments
    fi,          \* position of the for loop over all_files (next file)
    results,     \* the dict being built: entity name -> table
    reads,       \* the files handed to pd.read_csv so far, in order
    fpc,         \* "loop", "returned" or "raised"
    \* entity name derivation alone
    file,        \* a file path
    entity,      \* the entity name derived from it, <<"?">> before
    epc,         \* "start" or "derived"
    \* the table transforms
    df,          \* the caller's table, the argument of the next call
    arg,         \* the table as it was when the last call was made
    call,        \* the last call: its function and arguments
    ret,         \* what the last call returned or raised
    ncalls,      \* the calls made so far
    tpc          \* "ready", "returned" or "raised"

fvars == <<path, is_directory, all_files, config, fi, results, reads, fpc>>
evars == <<file, entity, epc>>
tvars == <<df, arg, call, ret, ncalls, tpc>>
vars == <<fvars, evars, tvars>>

-----------------------------------------------------------------------------
(* Bounds *)

MaxNameLen == 4      \* tokens in a path of the entity-name specification
MaxStemLen == 2      \* tokens before ".csv" in a directory entry
MaxFiles == 2        \* entries of the directory
MaxRows == 2         \* rows of a table the caller supplies
MaxCalls == 2        \* calls of one pipeline

PathTokens == {"A", "B", "_", "-", ".csv", "/"}
StemTokens == {"A", "_", "-"}

Range(s) == {s[k] : k \in 1..Len(s)}

RECURSIVE Texts(_, _)
Texts(tokens, n) ==
    IF n = 0 THEN {<<>>}
    ELSE LET shorter == Texts(tokens, n - 1)
         IN  shorter \cup {Append(s, t) : s \in shorter, t \in tokens}

-----------------------------------------------------------------------------
(* Python str primitives on token sequences *)

\* sep in s
Contains(s, sep) == \E k \in 1..Len(s) : s[k] = sep

\* s.split(sep): the parts between the occurrences of sep, at least one part
RECURSIVE Split(_, _)
Split(s, sep) ==
    IF ~Contains(s, sep) THEN <<s>>
    ELSE LET k == CHOOSE j \in 1..Len(s) :
                      s[j] = sep /\ \A h \in 1..(j - 1) : s[h] # sep
         IN  <<SubSeq(s, 1, k - 1)>> \o Split(SubSeq(s, k + 1, Len(s)), sep)

\* os.path.join(path, entry)
PathJoin(p, entry) == p \o <<"/">> \o entry

\* s.endswith('.csv')
EndsWithCsv(s) == Len(s) > 0 /\ s[Len(s)] = ".csv"

-----------------------------------------------------------------------------
(* read_csv_folder, lines 43-50: the entity name of a file *)

EntityTypeElif(f) ==
    LET split_path == Split(f, "/")
        e0 == Split(split_path[Len(split_path)], ".csv")[1]
    IN  IF Contains(e0, "_") THEN Split(e0, "_")[1]
        ELSE IF Contains(e0, "-") THEN Split(e0, "-")[1]
        ELSE e0

EntityType(f) ==
    LET split_path == Split(f, "/")
        e0 == Split(split_path[Len(split_path)], ".csv")[1]
        e1 == IF Contains(e0, "_") THEN Split(e0, "_")[1] ELSE e0
        e2 == IF Contains(e1, "-") THEN Split(e1, "-")[1] ELSE e1
    IN  e2

\* line 52: entity_type not in results
NotSeenAlways(entity_type, res) == TRUE

NotSeen(entity_type, res) == entity_type \notin DOMAIN res

\* dict.get(key): the value, or None
DictGet(d, key) == IF key \in DOMAIN d THEN d[key] ELSE "None"

\* pd.read_csv(file, index_col=..., converters=...): the table is identified
\* by the file it was parsed from and the options it was parsed with
ReadCsv(f, index_col, converters) ==
    [file |-> f, index_col |-> index_col, converters |-> converters]

NoDict == [k \in {} |-> "None"]

\* the caller configures the entity "A" and no other
Configs ==
    { [index_cols |-> [k \in {<<"A">>} |-> "Id"],
       converters |-> [k \in {<<"A">>} |-> "literal_eval"]] }

DirPath == <<"B", "_", "A">>

\* the entries of a directory, and those that pass the filter of line 35
DirEntries ==
    LET stems == Texts(StemTokens, MaxStemLen)
    IN  stems \cup {Append(s, ".csv") : s \in stems}

CsvEntries == {e \in DirEntries : EndsWithCsv(PathJoin(DirPath, e))}

Listings ==
    UNION { {l \in [1..n -> CsvEntries] : \A a, b \in 1..n : a # b => l[a] # l[b]}
            : n \in 0..MaxFiles }

-----------------------------------------------------------------------------
(* read_csv_folder as a state machine: lines 30-57 *)

EntityIdle == file = <<>> /\ entity = <<"?">> /\ epc = "idle"

NoTable == [columns |-> <<>>, index |-> <<>>, rows |-> <<>>]
NoCall == [fn |-> "none", column_name |-> "", param |-> <<>>]
NoRet == [kind |-> "none", val |-> NoTable, err |-> ""]

TablesIdle ==
    /\ df = NoTable /\ arg = NoTable /\ call = NoCall /\ ret = NoRet
    /\ ncalls = 0 /\ tpc = "idle"

FolderInit ==
    /\ EntityIdle
    /\ TablesIdle
    /\ is_directory \in BOOLEAN
    /\ \/ /\ is_directory
          /\ path = DirPath
          /\ \E l \in Listings : all_files = [k \in DOMAIN l |-> PathJoin(path, l[k])]
       \/ /\ ~is_directory
          /\ path \in {PathJoin(DirPath, e) : e \in CsvEntries} \cup {<<"A", "-", "B">>}
          /\ all_files = <<path>>
    /\ config \in Configs
    /\ fi = 1
    /\ results = NoDict
    /\ reads = <<>>
    /\ fpc = "loop"

\* lines 52-55, the file parses
ReadFile ==
    /\ fpc = "loop" /\ fi <= Len(all_files)
    /\ LET f == all_files[fi]
           entity_type == EntityType(f)
       IN  /\ NotSeen(entity_type, results)
           /\ results' = [k \in DOMAIN results \cup {entity_type} |->
                            IF k = entity_type
                            THEN ReadCsv(f, DictGet(config.index_cols, entity_type),
                                         DictGet(config.converters, entity_type))
                            ELSE results[k]]
           /\ reads' = Append(reads, f)
    /\ fi' = fi + 1
    /\ UNCHANGED <<path, is_directory, all_files, config, fpc, evars, tvars>>

\* lines 54-55, pd.read_csv raises: the failure propagates
ReadFileRaises ==
    /\ fpc = "loop" /\ fi <= Len(all_files)
    /\ NotSeen(EntityType(all_files[fi]), results)
    /\ reads' = Append(reads, all_files[fi])
    /\ fpc' = "raised"
    /\ UNCHANGED <<path, is_directory, all_files, config, fi, results, evars, tvars>>

\* line 52 false: the entity name was seen
SkipFile ==
    /\ fpc = "loop" /\ fi <= Len(all_files)
    /\ ~NotSeen(EntityType(all_files[fi]), results)
    /\ fi' = fi + 1
    /\ UNCHANGED <<path, is_directory, all_files, config, results, reads, fpc, evars, tvars>>

\* line 57
ReturnResults ==
    /\ fpc = "loop" /\ fi > Len(all_files)
    /\ fpc' = "returned"
    /\ UNCHANGED <<path, is_directory, all_files, config, fi, results, reads, evars, tvars>>

FolderNext == ReadFile \/ ReadFileRaises \/ SkipFile \/ ReturnResults

SpecFolder == FolderInit /\ [][FolderNext]_vars

-----------------------------------------------------------------------------
(* The entity name of one file path *)

FolderIdle ==
    /\ path = <<>> /\ is_directory = FALSE /\ all_files = <<>>
    /\ config = [index_cols |-> NoDict, converters |-> NoDict]
    /\ fi = 1 /\ results = NoDict /\ reads = <<>> /\ fpc = "idle"

EntityInit ==
    /\ FolderIdle
    /\ TablesIdle
    /\ file \in Texts(PathTokens, MaxNameLen)
    /\ entity = <<"?">>
    /\ epc = "start"

DeriveEntity ==
    /\ epc = "start"
    /\ entity' = EntityType(file)
    /\ epc' = "derived"
    /\ UNCHANGED <<file, fvars, tvars>>

EntityNext == DeriveEntity

SpecEntity == EntityInit /\ [][EntityNext]_vars

-----------------------------------------------------------------------------
(* Python values.  A value is a tagged tuple:                              *)
(*   <<"None">>, <<"NaN">>, <<"int", n>>, <<"str", text>>,                 *)
(*   <<"dict", items>> with items a sequence of <<key, value>> in          *)
(*   insertion order, and <<"list", elements>>.                            *)
(* An outcome of an evaluation is [ok, val, err]: a value, or the name of  *)
(* the exception raised.                                                   *)

None == <<"None">>
NaN == <<"NaN">>
IntV(n) == <<"int", n>>
Str(text) == <<"str", text>>
Dict(items) == <<"dict", items>>
List(elements) == <<"list", elements>>

TypeOf(v) == v[1]

Ok(v) == [ok |-> TRUE, val |-> v, err |-> ""]
Raise(e) == [ok |-> FALSE, val |-> None, err |-> e]

\* d.get(key) on the items of a dict
ItemsGet(items, key) ==
    IF \E k \in 1..Len(items) : items[k][1] = key
    THEN items[CHOOSE k \in 1..Len(items) : items[k][1] = key][2]
    ELSE None

\* d[key] = value: an existing key keeps its place, a new one goes last
ItemsSet(items, key, value) ==
    IF \E k \in 1..Len(items) : items[k][1] = key
    THEN [k \in 1..Len(items) |->
            IF items[k][1] = key THEN <<key, value>> ELSE items[k]]
    ELSE Append(items, <<key, value>>)

\* d.pop(key)
ItemsPop(items, key) == SelectSeq(items, LAMBDA it : it[1] # key)

\* d.update(other)
RECURSIVE ItemsUpdate(_, _)
ItemsUpdate(items, other) ==
    IF other = <<>> THEN items
    ELSE ItemsUpdate(ItemsSet(items, other[1][1], other[1][2]), Tail(other))

\* The records and texts of the cells
RFirst == Dict(<< <<"Name", Str("First")>>, <<"Value", Str("John")>> >>)
RFirstAgain == Dict(<< <<"Name", Str("First")>>, <<"Value", Str("Jane")>> >>)
RLast == Dict(<< <<"Name", Str("Last")>>, <<"Value", Str("Smith")>> >>)
RRef == Dict(<< <<"Name", Str("Ref")>>,
                <<"Value", Dict(<< <<"name", Str("Pump")>> >>)>> >>)
LastText == "{'Name': 'Last', 'Value': 'Smith'}"

\* ast.literal_eval(text): the literal the text denotes; any text that
\* denotes none raises ValueError
LiteralEval(text) ==
    CASE text = LastText -> Ok(RLast)
      [] text = "5" -> Ok(IntV(5))
      [] OTHER -> Raise("ValueError")

-----------------------------------------------------------------------------
(* json_tuple_to_cols.get_value, lines 81-90 *)

GetValue(y, prop) ==
    LET decoded == IF TypeOf(y) = "str" THEN LiteralEval(y[2]) ELSE Ok(y)
        value == decoded.val
    IN  IF ~decoded.ok THEN decoded
        ELSE IF TypeOf(value) = "dict" THEN Ok(ItemsGet(value[2], prop))
        ELSE IF TypeOf(value) = "list" THEN
            IF Len(value[2]) = 0 THEN Raise("IndexError")
            ELSE IF TypeOf(value[2][1]) # "dict" THEN Raise("AttributeError")
            ELSE Ok(ItemsGet(value[2][1][2], prop))
        ELSE Ok(None)

-----------------------------------------------------------------------------
(* array_to_dict_reducer, lines 249-257.  The accumulator is an outcome    *)
(* holding the items of the dict; a raised outcome stays raised, as the    *)
(* exception leaves functools.reduce.                                      *)

ReducerNoCheck(key_prop, value_prop, accumulator, current_value) ==
    IF TypeOf(current_value) # "dict" THEN Ok(accumulator)
    ELSE Ok(ItemsSet(accumulator, ItemsGet(current_value[2], key_prop),
                     ItemsGet(current_value[2], value_prop)))

Reducer(key_prop, value_prop, accumulator, current_value) ==
    IF TypeOf(current_value) # "dict" THEN Raise("AttributeError")
    ELSE LET key == ItemsGet(current_value[2], key_prop)
             value == ItemsGet(current_value[2], value_prop)
         IN  IF TypeOf(key) \in {"dict", "list"} THEN Raise("TypeError")
             ELSE Ok(ItemsSet(accumulator, key, value))

\* reduce(reducer, sequence, initial) with the default reducer of line 215
RECURSIVE Reduce(_, _)
Reduce(sequence, accumulator) ==
    IF sequence = <<>> THEN Ok(accumulator)
    ELSE LET step == Reducer("Name", "Value", accumulator, sequence[1])
         IN  IF step.ok THEN Reduce(Tail(sequence), step.val) ELSE step

\* the label a dict key gives a Series entry
LabelOf(key) ==
    CASE TypeOf(key) = "str" -> key[2]
      [] TypeOf(key) = "int" -> ToString(key[2])
      [] OTHER -> "None"

\* pd.Series(accumulator): the entries <<label, value>> in insertion order
SeriesOf(items) == [k \in 1..Len(items) |-> <<LabelOf(items[k][1]), items[k][2]>>]

\* explode_json_to_cols.json_to_series, lines 217-227
JsonToSeries(y) ==
    LET decoded == IF TypeOf(y) = "str" THEN LiteralEval(y[2]) ELSE Ok(y)
        value == decoded.val
        folded == IF TypeOf(value) = "dict" THEN Reduce(<<value>>, <<>>)
                  ELSE Reduce(value[2], <<>>)
    IN  IF ~decoded.ok THEN decoded
        ELSE IF TypeOf(value) \in {"dict", "list"} THEN
            IF folded.ok THEN Ok(SeriesOf(folded.val)) ELSE folded
        ELSE Ok(<<>>)

-----------------------------------------------------------------------------
(* pandas.io.json nested_to_record(ds, sep='.', max_level) on one dict:    *)
(* a key holding a dict above max_level is replaced by its flattened       *)
(* entries under 'key.'.                                                   *)

RECURSIVE FlattenItems(_, _, _, _, _)
FlattenItems(todo, new_d, prefix, level, max_level) ==
    IF todo = <<>> THEN new_d
    ELSE LET k == todo[1][1]
             v == todo[1][2]
             newkey == IF level = 0 THEN k ELSE prefix \o "." \o k
             leaf == TypeOf(v) # "dict" \/ level >= max_level
             moved == IF level # 0 THEN ItemsSet(ItemsPop(new_d, k), newkey, v)
                      ELSE new_d
             nested == ItemsUpdate(ItemsPop(new_d, k),
                                   FlattenItems(v[2], v[2], newkey, level + 1, max_level))
         IN  FlattenItems(Tail(todo), IF leaf THEN moved ELSE nested,
                          prefix, level, max_level)

NestedToRecord(ds, max_level) ==
    IF TypeOf(ds) = "dict"
    THEN Ok(Dict(FlattenItems(ds[2], ds[2], "", 0, max_level)))
    ELSE IF TypeOf(ds) = "list" THEN
        IF \E k \in 1..Len(ds[2]) : TypeOf(ds[2][k]) # "dict"
        THEN Raise("AttributeError")
        ELSE Ok(List([k \in 1..Len(ds[2]) |->
                   Dict(FlattenItems(ds[2][k][2], ds[2][k][2], "", 0, max_level))]))
    ELSE Raise("TypeError")

\* pd.Series(record) of a dict with text keys, or of a list (labels 0, 1, ...)
SeriesOfRecord(record) ==
    IF TypeOf(record) = "dict" THEN record[2]
    ELSE [k \in 1..Len(record[2]) |-> <<ToString(k - 1), record[2][k]>>]

\* explode_json_to_rows.flatten, lines 174-177
Flatten(y, max_level) ==
    LET decoded == IF TypeOf(y) = "str" THEN LiteralEval(y[2]) ELSE Ok(y)
        record == NestedToRecord(decoded.val, max_level)
    IN  IF ~decoded.ok THEN decoded
        ELSE IF ~record.ok THEN record
        ELSE Ok(SeriesOfRecord(record.val))

-----------------------------------------------------------------------------
(* pandas tables.  A table is [columns, index, rows]: the column labels,   *)
(* the row labels, and per row the cells in column order.  The tables of   *)
(* the model have at least one row and distinct column labels.             *)

RECURSIVE Dedup(_)
Dedup(s) ==
    IF s = <<>> THEN <<>>
    ELSE LET d == Dedup(SubSeq(s, 1, Len(s) - 1))
         IN  IF s[Len(s)] \in Range(d) THEN d ELSE Append(d, s[Len(s)])

RECURSIVE Concat(_)
Concat(ss) == IF ss = <<>> THEN <<>> ELSE ss[1] \o Concat(Tail(ss))

NRows(t) == Len(t.index)
HasColumn(t, name) == name \in Range(t.columns)
ColumnPos(t, name) == CHOOSE k \in 1..Len(t.columns) : t.columns[k] = name

\* df[name]: the cells of one column, by row
Column(t, name) == [i \in 1..NRows(t) |-> t.rows[i][ColumnPos(t, name)]]

\* the first failure of a row-wise apply, or all the values
Applied(outcomes) ==
    IF \E i \in 1..Len(outcomes) : ~outcomes[i].ok
    THEN Raise(outcomes[CHOOSE i \in 1..Len(outcomes) :
                          /\ ~outcomes[i].ok
                          /\ \A h \in 1..(i - 1) : outcomes[h].ok].err)
    ELSE Ok([i \in 1..Len(outcomes) |-> outcomes[i].val])

\* df[name] = values: a present column is overwritten in place, a new one
\* is appended
SetItem(t, name, values) ==
    IF HasColumn(t, name)
    THEN [t EXCEPT !.rows = [i \in 1..NRows(t) |->
                               [t.rows[i] EXCEPT ![ColumnPos(t, name)] = values[i]]]]
    ELSE [t EXCEPT !.columns = Append(t.columns, name),
                   !.rows = [i \in 1..NRows(t) |-> Append(t.rows[i], values[i])]]

\* the table restricted to the columns at the given positions
TakeColumns(t, positions) ==
    [columns |-> [k \in 1..Len(positions) |-> t.columns[positions[k]]],
     index |-> t.index,
     rows |-> [i \in 1..NRows(t) |->
                 [k \in 1..Len(positions) |-> t.rows[i][positions[k]]]]]

Positions(t) == [k \in 1..Len(t.columns) |-> k]

\* df.drop(name, 1): a new table without the column
Drop(t, name) ==
    TakeColumns(t, SelectSeq(Positions(t), LAMBDA k : t.columns[k] # name))

\* df[names]: a new table of the named columns, in the order of names
Select(t, names) ==
    TakeColumns(t, [k \in 1..Len(names) |-> ColumnPos(t, names[k])])

\* df.explode(name): a list cell gives one row per element, or one row of
\* NaN when empty; a dict cell is list-like and gives one row per key; any
\* other cell gives its row unchanged.  The rows keep their label.
ExplodedCell(v) ==
    IF TypeOf(v) = "list" THEN (IF v[2] = <<>> THEN <<NaN>> ELSE v[2])
    ELSE IF TypeOf(v) = "dict" THEN
        (IF v[2] = <<>> THEN <<NaN>>
         ELSE [k \in 1..Len(v[2]) |-> Str(v[2][k][1])])
    ELSE <<v>>

Explode(t, name) ==
    LET p == ColumnPos(t, name)
        blocks == [i \in 1..NRows(t) |->
                     LET cells == ExplodedCell(t.rows[i][p])
                     IN  [k \in 1..Len(cells) |->
                            <<t.index[i], [t.rows[i] EXCEPT ![p] = cells[k]]>>]]
        flat == Concat(blocks)
    IN  [columns |-> t.columns,
         index |-> [i \in 1..Len(flat) |-> flat[i][1]],
         rows |-> [i \in 1..Len(flat) |-> flat[i][2]]]

\* Series.apply of a function that returns a Series: one column per label,
\* in the order the labels first appear, NaN where a row has no such label
EntryOf(series, label) ==
    IF \E k \in 1..Len(series) : series[k][1] = label
    THEN series[CHOOSE k \in 1..Len(series) : series[k][1] = label][2]
    ELSE NaN

FrameOf(index, seriess) ==
    LET labels == Dedup(Concat([i \in 1..Len(seriess) |->
                                  [k \in 1..Len(seriess[i]) |-> seriess[i][k][1]]]))
    IN  [columns |-> labels,
         index |-> index,
         rows |-> [i \in 1..Len(seriess) |->
                     [k \in 1..Len(labels) |-> EntryOf(seriess[i], labels[k])]]]

\* frame.add_prefix(prefix)
AddPrefix(t, prefix) ==
    [t EXCEPT !.columns = [k \in 1..Len(t.columns) |-> prefix \o t.columns[k]]]

\* pd.concat([a, b], axis=1) of two tables with equal row labels
ConcatColumns(a, b) ==
    [columns |-> a.columns \o b.columns,
     index |-> a.index,
     rows |-> [i \in 1..NRows(a) |-> a.rows[i] \o b.rows[i]]]

\* left.join(right): a left join on the row labels; every pair of a left
\* row and a right row with the same label gives a row.  Overlapping
\* column labels raise ValueError.
JoinRows(left, right) ==
    LET blocks == [i \in 1..NRows(left) |->
                     LET matches == SelectSeq([j \in 1..NRows(right) |-> j],
                                              LAMBDA j : right.index[j] = left.index[i])
                     IN  IF matches = <<>>
                         THEN << <<left.index[i],
                                   left.rows[i] \o [k \in 1..Len(right.columns) |-> NaN]>> >>
                         ELSE [m \in 1..Len(matches) |->
                                 <<left.index[i], left.rows[i] \o right.rows[matches[m]]>>]]
        flat == Concat(blocks)
    IN  [columns |-> left.columns \o right.columns,
         index |-> [i \in 1..Len(flat) |-> flat[i][1]],
         rows |-> [i \in 1..Len(flat) |-> flat[i][2]]]

Join(left, right) ==
    IF Range(left.columns) \cap Range(right.columns) # {}
    THEN Raise("ValueError")
    ELSE Ok(JoinRows(left, right))

\* pd.Index(keys).intersection(pd.Index(columns)): the keys that are
\* columns, in the order of the keys
IntersectionTableOrder(keys, columns) ==
    SelectSeq(columns, LAMBDA c : c \in Range(keys))

Intersection(keys, columns) ==
    SelectSeq(keys, LAMBDA c : c \in Range(columns))

\* frame.rename(columns=mapping)
RenameColumns(t, mapping) ==
    [t EXCEPT !.columns =
        [k \in 1..Len(t.columns) |->
            IF \E m \in 1..Len(mapping) : mapping[m][1] = t.columns[k]
            THEN ItemsGet(mapping, t.columns[k])
            ELSE t.columns[k]]]

-----------------------------------------------------------------------------
(* The four transforms: the value returned (or the exception raised) and   *)
(* the caller's table after the call                                       *)

Returned(t) == [kind |-> "df", val |-> t, err |-> ""]
Raised(e) == [kind |-> "raise", val |-> NoTable, err |-> e]

\* json_tuple_to_cols, lines 92-97: [ret, df]
JsonTupleToCols(t, column_name, col_config) ==
    IF ~HasColumn(t, column_name) THEN [ret |-> Raised("KeyError"), df |-> t]
    ELSE
    LET keys == Applied([i \in 1..NRows(t) |->
                           GetValue(Column(t, column_name)[i], col_config.look_up.key_prop)])
        t1 == SetItem(t, col_config.cols.key_prop, keys.val)
        values == Applied([i \in 1..NRows(t) |->
                           GetValue(Column(t1, column_name)[i], col_config.look_up.value_prop)])
        t2 == SetItem(t1, col_config.cols.value_prop, values.val)
    IN  IF ~keys.ok THEN [ret |-> Raised(keys.err), df |-> t]
        ELSE IF ~values.ok THEN [ret |-> Raised(values.err), df |-> t1]
        ELSE [ret |-> Returned(Drop(t2, column_name)), df |-> t2]

\* rename, lines 129-137
Rename(t, target_columns) ==
    IF TypeOf(target_columns) = "list" THEN
        IF \E k \in 1..Len(target_columns[2]) : ~HasColumn(t, target_columns[2][k])
        THEN Raised("KeyError")
        ELSE Returned(Select(t, target_columns[2]))
    ELSE IF TypeOf(target_columns) = "dict" THEN
        LET idx1 == [k \in 1..Len(target_columns[2]) |-> target_columns[2][k][1]]
            idx2 == t.columns
            target_column_names == Intersection(idx1, idx2)
        IN  Returned(RenameColumns(Select(t, target_column_names), target_columns[2]))
    ELSE Returned(t)

\* explode_json_to_rows, lines 170-183
ExplodeJsonToRows(t, column_name, max_level) ==
    IF ~HasColumn(t, column_name) THEN Raised("KeyError")
    ELSE
    LET source_df == Explode(t, column_name)
        flattened == Applied([i \in 1..NRows(source_df) |->
                                Flatten(Column(source_df, column_name)[i], max_level)])
        final_df == ConcatColumns(source_df,
                        AddPrefix(FrameOf(source_df.index, flattened.val),
                                  column_name \o "."))
        dropped == Drop(final_df, column_name)   \* line 181: not kept
    IN  IF ~flattened.ok THEN Raised(flattened.err)
        ELSE Returned(final_df)

\* explode_json_to_cols, lines 215-236
ExplodeJsonToCols(t, column_name) ==
    IF ~HasColumn(t, column_name) THEN Raised("KeyError")
    ELSE
    LET child_df == Select(t, t.columns)
        series == Applied([i \in 1..NRows(child_df) |->
                             JsonToSeries(Column(child_df, column_name)[i])])
        joined == Join(Drop(child_df, column_name), FrameOf(child_df.index, series.val))
    IN  IF ~series.ok THEN Raised(series.err)
        ELSE IF ~joined.ok THEN Raised(joined.err)
        ELSE Returned(joined.val)

-----------------------------------------------------------------------------
(* The caller: a table, and a pipeline of calls on it *)

JsonCells ==
    { List(<<RFirst, RLast>>),
      List(<<RFirst, RFirstAgain>>),
      List(<<>>),
      List(<<RFirst, IntV(7)>>),
      List(<<IntV(7)>>),
      RRef,
      IntV(5),
      Str(LastText),
      Str("n/a"),
      NaN }

\* the row labels of n rows, up to renaming: labels may repeat
RECURSIVE Indexes(_)
Indexes(n) ==
    IF n = 0 THEN {<<>>}
    ELSE {Append(s, l) : s \in Indexes(n - 1), l \in 0..(n - 1)}

IsCanonical(idx) ==
    \A k \in 1..Len(idx) : \A l \in 0..(idx[k] - 1) : \E h \in 1..(k - 1) : idx[h] = l

Tables ==
    UNION { { [columns |-> <<"Id", "Line">>,
               index |-> idx,
               rows |-> [i \in 1..n |-> <<IntV(i), cells[i]>>]]
              : idx \in {x \in Indexes(n) : IsCanonical(x)}, cells \in [1..n -> JsonCells] }
            : n \in 1..MaxRows }

ColumnArgs == {"Line"}

ColConfigs ==
    { [cols |-> [key_prop |-> "Key", value_prop |-> "Val"],
       look_up |-> [key_prop |-> "Name", value_prop |-> "Value"]] }

RenameTargets ==
    { None,
      List(<<"Line">>),
      List(<<"Line", "Zip">>),
      Dict(<< <<"Line", "Items">>, <<"Zip", "Z">>, <<"Id", "Key">> >>),
      Dict(<< <<"Id", "Key">> >>) }

MaxLevels == {0, 1}

TableInit ==
    /\ FolderIdle
    /\ EntityIdle
    /\ df \in Tables
    /\ arg = NoTable
    /\ call = NoCall
    /\ ret = NoRet
    /\ ncalls = 0
    /\ tpc = "ready"

Finish(r) ==
    /\ ret' = r
    /\ tpc' = IF r.kind = "df" THEN "returned" ELSE "raised"
    /\ arg' = df
    /\ ncalls' = ncalls + 1
    /\ UNCHANGED <<fvars, evars>>

CallJsonTupleToCols ==
    /\ tpc = "ready" /\ ncalls < MaxCalls
    /\ \E column_name \in ColumnArgs, col_config \in ColConfigs :
          LET out == JsonTupleToCols(df, column_name, col_config)
          IN  /\ call' = [fn |-> "json_tuple_to_cols", column_name |-> column_name,
                          param |-> col_config]
              /\ df' = out.df
              /\ Finish(out.ret)

CallRename ==
    /\ tpc = "ready" /\ ncalls < MaxCalls
    /\ \E target_columns \in RenameTargets :
          /\ call' = [fn |-> "rename", column_name |-> "", param |-> target_columns]
          /\ df' = df
          /\ Finish(Rename(df, target_columns))

CallExplodeJsonToRows ==
    /\ tpc = "ready" /\ ncalls < MaxCalls
    /\ \E column_name \in ColumnArgs, max_level \in MaxLevels :
          /\ call' = [fn |-> "explode_json_to_rows", column_name |-> column_name,
                      param |-> max_level]
          /\ df' = df
          /\ Finish(ExplodeJsonToRows(df, column_name, max_level))

CallExplodeJsonToCols ==
    /\ tpc = "ready" /\ ncalls < MaxCalls
    /\ \E column_name \in ColumnArgs :
          /\ call' = [fn |-> "explode_json_to_cols", column_name |-> column_name,
                      param |-> <<>>]
          /\ df' = df
          /\ Finish(ExplodeJsonToCols(df, column_name))

\* the caller passes the returned table to the next call
Chain ==
    /\ tpc = "returned" /\ ncalls < MaxCalls
    /\ df' = ret.val
    /\ tpc' = "ready"
    /\ UNCHANGED <<arg, call, ret, ncalls, fvars, evars>>

Next ==
    \/ CallJsonTupleToCols
    \/ CallRename
    \/ CallExplodeJsonToRows
    \/ CallExplodeJsonToCols
    \/ Chain

Spec == TableInit /\ [][Next]_vars

-----------------------------------------------------------------------------
(* Claims about read_csv_folder *)

\* the entity name of each enumerated file
Entities == [k \in 1..Len(all_files) |-> EntityType(all_files[k])]

\* position k holds the first file with its entity name
IsFirst(ents, k) == \A h \in 1..(k - 1) : ents[h] # ents[k]

\* C2: the result of read_csv_folder has exactly one table per distinct entity
\* name of the enumerated files, built from the first file in enumeration order
\* with that entity name; no later file with a seen entity name is parsed, and
\* none replaces the earlier table.
C2_FirstFileWins ==
    LET ents == Entities
        firsts == SelectSeq([k \in 1..Len(all_files) |-> k],
                            LAMBDA k : IsFirst(ents, k))
    IN  /\ Len(reads) <= Len(firsts)
        /\ \A j \in 1..Len(reads) : reads[j] = all_files[firsts[j]]
        /\ \A e \in DOMAIN results :
              \E k \in 1..Len(all_files) :
                  ents[k] = e /\ IsFirst(ents, k) /\ results[e].file = all_files[k]
        /\ fpc = "returned" =>
              /\ DOMAIN results = Range(ents)
              /\ Len(reads) = Cardinality(DOMAIN results)

\* two files of one entity were enumerated and the call returned
C2_Witness ==
    /\ fpc = "returned"
    /\ \E j, k \in 1..Len(all_files) :
          /\ j < k
          /\ all_files[j] # all_files[k]
          /\ EntityType(all_files[j]) = EntityType(all_files[k])
          /\ results[EntityType(all_files[k])].file = all_files[j]

-----------------------------------------------------------------------------
(* Claims about the entity name *)

\* the part of f after its last "/"
LastComponent(f) ==
    CHOOSE s \in {SubSeq(f, k, Len(f)) : k \in 1..(Len(f) + 1)} :
        /\ \A k \in 1..Len(s) : s[k] # "/"
        /\ Len(s) < Len(f) => f[Len(f) - Len(s)] = "/"

\* the longest prefix of s holding none of the tokens
PrefixBefore(s, tokens) ==
    LET n == CHOOSE m \in 0..Len(s) :
                 /\ \A k \in 1..m : s[k] \notin tokens
                 /\ m < Len(s) => s[m + 1] \in tokens
    IN  SubSeq(s, 1, n)

\* C6: the entity name of a file path is the text of its last path component
\* before the first '.csv', cut at the first '_' or '-', whichever comes first;
\* so a name <EntityName> followed by '-', '_' or '.csv' maps to EntityName
\* whatever the order of the '-' and '_' after it.
C6_EntityName ==
    epc = "derived" =>
        LET comp == LastComponent(file)
        IN  /\ entity = PrefixBefore(PrefixBefore(comp, {".csv"}), {"_", "-"})
            /\ \A n \in 0..(Len(comp) - 1) :
                  (/\ \A k \in 1..n : comp[k] \in {"A", "B"}
                   /\ comp[n + 1] \in {"_", "-", ".csv"})
                  => entity = SubSeq(comp, 1, n)

\* a name with '-' before '_' was cut at the '-'
C6_Witness ==
    /\ epc = "derived"
    /\ \E i, j \in 1..Len(file) :
          /\ i < j /\ file[i] = "-" /\ file[j] = "_"
          /\ \A k \in 1..(i - 1) : file[k] \in {"A", "B"}
          /\ i > 1
          /\ entity = SubSeq(file, 1, i - 1)

-----------------------------------------------------------------------------
(* Claims about the table transforms.  arg is the table passed to the last *)
(* call, call its function and arguments, ret its outcome.                 *)

SourceCells == Column(arg, call.column_name)

OtherColumns(t) == {c \in Range(t.columns) : c # call.column_name}

\* the cells of row i of t under the columns of arg other than the source
\* column
OtherCells(t, i) == [c \in OtherColumns(arg) |-> Column(t, c)[i]]

\* a cell as the transforms see it: a text that denotes a literal is the
\* literal
Decoded(y) ==
    IF TypeOf(y) = "str" /\ LiteralEval(y[2]).ok THEN LiteralEval(y[2]).val ELSE y

FlatLabels == {"Name", "Value", "Value.name", "0", "1", "2"}

\* C1: the table explode_json_to_rows returns does not hold the source
\* column: its columns are the original columns without the source column,
\* and the flattened columns prefixed with '<source column>.'.
C1_SourceColumnRemoved ==
    (call.fn = "explode_json_to_rows" /\ ret.kind = "df") =>
        /\ ~HasColumn(ret.val, call.column_name)
        /\ OtherColumns(arg) \subseteq Range(ret.val.columns)
        /\ \A c \in Range(ret.val.columns) :
              \/ c \in OtherColumns(arg)
              \/ c \in {call.column_name \o "." \o l : l \in FlatLabels}

\* what get_value is to return for a cell
ExpectedValue(y, prop) ==
    LET value == Decoded(y)
    IN  IF TypeOf(value) = "dict" THEN ItemsGet(value[2], prop)
        ELSE IF /\ TypeOf(value) = "list"
                /\ Len(value[2]) > 0
                /\ TypeOf(value[2][1]) = "dict"
             THEN ItemsGet(value[2][1][2], prop)
        ELSE None

\* C3: get_value never raises: json_tuple_to_cols returns for every cell
\* shape, with the value at prop of an object, of the first element of an
\* array, and a missing value for every other cell.
C3_GetValueNeverRaises ==
    (call.fn = "json_tuple_to_cols" /\ HasColumn(arg, call.column_name)) =>
        /\ ret.kind = "df"
        /\ \A i \in 1..NRows(arg) :
              /\ Column(ret.val, call.param.cols.key_prop)[i]
                    = ExpectedValue(SourceCells[i], call.param.look_up.key_prop)
              /\ Column(ret.val, call.param.cols.value_prop)[i]
                    = ExpectedValue(SourceCells[i], call.param.look_up.value_prop)

\* C4: the transforms are non-destructive: after a call the table the
\* caller passed has the columns and cells it had before the call.
C4_NonDestructive ==
    tpc \in {"returned", "raised"} => df = arg

\* the rows one cell is to give explode_json_to_rows
ExpectedRowCount(y) ==
    IF TypeOf(y) = "list" /\ Len(y[2]) > 0 THEN Len(y[2]) ELSE 1

RECURSIVE Repeat(_, _)
Repeat(x, n) == IF n = 0 THEN <<>> ELSE <<x>> \o Repeat(x, n - 1)

\* C5: explode_json_to_rows gives n rows for an array of n >= 1 objects, one
\* row for an empty array and one row for a non-array scalar, each carrying
\* the other cells of its input row, and completes without error.
C5_RowsPerElement ==
    (/\ call.fn = "explode_json_to_rows"
     /\ HasColumn(arg, call.column_name)
     /\ \A i \in 1..NRows(arg) :
           \/ TypeOf(SourceCells[i]) \in {"int", "NaN"}
           \/ /\ TypeOf(SourceCells[i]) = "list"
              /\ \A k \in 1..Len(SourceCells[i][2]) :
                    TypeOf(SourceCells[i][2][k]) = "dict")
    => /\ ret.kind = "df"
       /\ [i \in 1..NRows(ret.val) |-> OtherCells(ret.val, i)]
             = Concat([i \in 1..NRows(arg) |->
                         Repeat(OtherCells(arg, i), ExpectedRowCount(SourceCells[i]))])

\* the records explode_json_to_cols is to fold for a cell
Records(y) ==
    LET value == Decoded(y)
    IN  IF TypeOf(value) = "dict" THEN <<value>>
        ELSE IF TypeOf(value) = "list" THEN value[2]
        ELSE <<>>

\* the labels the records of a cell give, and the value of a label: that of
\* the last record with it
KeyLabels(y) ==
    {LabelOf(ItemsGet(Records(y)[k][2], "Name")) : k \in 1..Len(Records(y))}

LastValue(y, label) ==
    LET recs == Records(y)
        holds(k) == LabelOf(ItemsGet(recs[k][2], "Name")) = label
    IN  IF \E k \in 1..Len(recs) : holds(k)
        THEN ItemsGet(recs[CHOOSE k \in 1..Len(recs) :
                             holds(k) /\ \A h \in (k + 1)..Len(recs) : ~holds(h)][2],
                      "Value")
        ELSE NaN

\* C7: with the default reducer each row of the result of
\* explode_json_to_cols holds, under the keys of its cell's records, the
\* value of the last record with the key, and a missing value under the keys
\* of other rows only; the columns are the original ones without the source
\* column plus the keys of all rows.
C7_ColsAreFold ==
    (call.fn = "explode_json_to_cols" /\ ret.kind = "df") =>
        LET keys == UNION {KeyLabels(SourceCells[i]) : i \in 1..NRows(arg)}
        IN  /\ Range(ret.val.columns) = OtherColumns(arg) \cup keys
            /\ NRows(ret.val) = NRows(arg)
            /\ \A i \in 1..NRows(arg) : \A c \in keys :
                  Column(ret.val, c)[i] = LastValue(SourceCells[i], c)

\* a cell whose fold meets an element that is not a dict
FoldsNonDict(y) ==
    /\ TypeOf(Decoded(y)) = "list"
    /\ \E k \in 1..Len(Decoded(y)[2]) : TypeOf(Decoded(y)[2][k]) # "dict"

Undecodable(y) == TypeOf(y) = "str" /\ ~LiteralEval(y[2]).ok

\* C8: the default reducer raises its invalid-argument failure
\* (AttributeError) on an element that is not a dict, wherever in the
\* sequence it stands, and explode_json_to_cols returns no table then: the
\* failure of the first failing row reaches the caller.
C8_ReducerFailurePropagates ==
    (/\ call.fn = "explode_json_to_cols"
     /\ HasColumn(arg, call.column_name)
     /\ \E i \in 1..NRows(arg) : FoldsNonDict(SourceCells[i]))
    => /\ ret.kind = "raise"
       /\ ret.val = NoTable
       /\ LET first == CHOOSE i \in 1..NRows(arg) :
                          /\ FoldsNonDict(SourceCells[i]) \/ Undecodable(SourceCells[i])
                          /\ \A h \in 1..(i - 1) :
                                ~(FoldsNonDict(SourceCells[h]) \/ Undecodable(SourceCells[h]))
          IN  FoldsNonDict(SourceCells[first]) => ret.err = "AttributeError"

\* a fold met a non-dict element after a dict, and the call raised
C8_Witness ==
    /\ call.fn = "explode_json_to_cols"
    /\ tpc = "raised"
    /\ \E i \in 1..NRows(arg) :
          /\ TypeOf(SourceCells[i]) = "list"
          /\ Len(SourceCells[i][2]) = 2
          /\ TypeOf(SourceCells[i][2][1]) = "dict"
          /\ TypeOf(SourceCells[i][2][2]) # "dict"
    /\ ret.err = "AttributeError"

\* C9: rename with a mapping returns the columns of the table that are keys
\* of the mapping, under their mapped names and in the order of the
\* mapping's keys; other columns are dropped, other keys are ignored without
\* error.
C9_RenameMapping ==
    (call.fn = "rename" /\ TypeOf(call.param) = "dict") =>
        LET mapping == call.param[2]
            kept == {m \in 1..Len(mapping) : mapping[m][1] \in Range(arg.columns)}
            keyOf(p) == CHOOSE m \in kept : mapping[m][2] = ret.val.columns[p]
        IN  /\ ret.kind = "df"
            /\ Len(ret.val.columns) = Cardinality(kept)
            /\ ret.val.index = arg.index
            /\ \A p \in 1..Len(ret.val.columns) :
                  /\ \E m \in kept : mapping[m][2] = ret.val.columns[p]
                  /\ [i \in 1..NRows(ret.val) |-> ret.val.rows[i][p]]
                        = Column(arg, mapping[keyOf(p)][1])
            /\ \A p, q \in 1..Len(ret.val.columns) : p < q => keyOf(p) < keyOf(q)

\* a mapping with a key that is no column, whose key order is not the
\* table's column order, was applied
C9_Witness ==
    /\ call.fn = "rename" /\ tpc = "returned"
    /\ TypeOf(call.param) = "dict"
    /\ \E m \in 1..Len(call.param[2]) : call.param[2][m][1] \notin Range(arg.columns)
    /\ arg.columns = <<"Id", "Line">>
    /\ ret.val.columns = <<"Items", "Key">>

\* C10: explode_json_to_cols returns one row per input row, also for a table
\* with repeated row labels: the join multiplies and drops no row, and row i
\* of the result carries the other cells of row i of the input.
C10_OneRowPerInputRow ==
    (call.fn = "explode_json_to_cols" /\ ret.kind = "df") =>
        /\ NRows(ret.val) = NRows(arg)
        /\ ret.val.index = arg.index
        /\ \A i \in 1..NRows(arg) : OtherCells(ret.val, i) = OtherCells(arg, i)

====
